---- MODULE Spec2Model ----
(***************************************************************************)
(* The MCP message bus of src/mcp: the bus server (server.py: handler,     *)
(* dispatch, the market and document connectors) and the bus client        *)
(* (clients.py: MCPMessageBus publish / subscribe / request).              *)
(*                                                                         *)
(* Python values are tagged records: [ty |-> "str", s |-> <<chars>>],      *)
(* [ty |-> "dict", d |-> function from keys], [ty |-> "none"], ...         *)
(* A str is the sequence of its characters, so that str.startswith is a    *)
(* real prefix test.  A frame on the wire is either a JSON text (named by  *)
(* the value it denotes) or a payload json.loads rejects.                  *)
(***************************************************************************)
EXTENDS Naturals, Sequences, FiniteSets, TLC

\* ------------------------------------------------------------------ bounds
NumOps == 2        \* client calls (and foreign peers) that may run concurrently
MaxFrames == 2     \* frames a foreign peer sends on its connection
PoolSize == 1      \* worker threads of the loop's default executor

\* ------------------------------------------------------------ Python values
PyNone == [ty |-> "none"]
PyStr(s) == [ty |-> "str", s |-> s]
PyNum(n) == [ty |-> "num", n |-> n]
PyBool(b) == [ty |-> "bool", b |-> b]
PyList(xs) == [ty |-> "list", xs |-> xs]
PyDict(d) == [ty |-> "dict", d |-> d]
EmptyDict == PyDict(<<>>)

s_market == <<"m", "a", "r", "k", "e", "t">>
s_document == <<"d", "o", "c", "u", "m", "e", "n", "t">>
s_doc == <<"d", "o", "c">>
s_history == <<"h", "i", "s", "t", "o", "r", "y">>
s_fetch == <<"f", "e", "t", "c", "h">>
s_AAPL == <<"A", "A", "P", "L">>
s_1mo == <<"1", "m", "o">>
s_1d == <<"1", "d">>
s_yahoo == <<"y", "a", "h", "o", "o">>
s_empty == <<>>

\* str.startswith(prefix)
StartsWith(s, prefix) ==
    /\ Len(s) >= Len(prefix)
    /\ SubSeq(s, 1, Len(prefix)) = prefix

\* what an f-string's {v} inserts
Format(v) ==
    CASE v.ty = "str" -> v.s
      [] v.ty = "none" -> <<"N", "o", "n", "e">>
      [] v.ty = "num" -> <<ToString(v.n)>>
      [] v.ty = "bool" -> IF v.b THEN <<"T", "r", "u", "e">> ELSE <<"F", "a", "l", "s", "e">>
      [] OTHER -> <<"<repr>">>

\* dict.get(key, default) on a value that is a dict
Get(v, key, default) == IF key \in DOMAIN v.d THEN v.d[key] ELSE default

HasGet(v) == v.ty = "dict"

\* ------------------------------------------------------------------ frames
\* a tuple, which json.dumps writes as an array
PyTuple(xs) == [ty |-> "tuple", xs |-> xs]

\* the value json.loads reads back from what json.dumps wrote for v
RECURSIVE ToJson(_)
ToJson(v) ==
    CASE v.ty = "dict" -> [ty |-> "dict", d |-> [k \in DOMAIN v.d |-> ToJson(v.d[k])]]
      [] v.ty \in {"list", "tuple"} ->
            [ty |-> "list", xs |-> [i \in DOMAIN v.xs |-> ToJson(v.xs[i])]]
      [] OTHER -> v

\* json.dumps(v): the JSON text denoting v
JsonDumps(v) == [fr |-> "json", v |-> ToJson(v)]
\* a text frame that is no JSON document: json.loads raises JSONDecodeError
NotJson == [fr |-> "notjson"]
\* a frame json.loads fails on with another exception (bytes that are not
\* UTF-8: UnicodeDecodeError; nesting beyond the recursion limit: RecursionError)
Undecodable == [fr |-> "undecodable"]

\* json.loads(raw): the value, or the exception raised
JsonLoads(raw) ==
    CASE raw.fr = "json" -> [ok |-> TRUE, v |-> raw.v]
      [] raw.fr = "notjson" -> [ok |-> FALSE, exc |-> "JSONDecodeError"]
      [] OTHER -> [ok |-> FALSE, exc |-> "UnicodeDecodeError"]

\* -------------------------------------------------------------- responses
ErrorEnvelope(text) == PyDict([error |-> PyStr(text)])

UnsupportedMarket(action) == ErrorEnvelope(<<"Unsupported market action: ">> \o Format(action))
UnsupportedDocument(action) == ErrorEnvelope(<<"Unsupported document action: ">> \o Format(action))
UnknownChannel(channel) == ErrorEnvelope(<<"Unknown channel: ">> \o Format(channel))
InvalidJson == ErrorEnvelope(<<"invalid JSON">>)

\* ---------------------------------------------------------------- dispatch
\* MCPServer.dispatch up to its first await: what it does next.
\*   raise   an exception leaves dispatch
\*   history it awaits MarketConnector.history(symbol, range_, interval)
\*   fetch   it awaits DocumentConnector.fetch(uri, media_type)
\*   return  it returns the response
Raise(exc) == [do |-> "raise", exc |-> exc]
Return(response) == [do |-> "return", response |-> response]
CallHistory(symbol, range, interval) ==
    [do |-> "history", connector |-> "market",
     symbol |-> symbol, range |-> range, interval |-> interval]
CallFetch(uri, media_type) ==
    [do |-> "fetch", connector |-> "document", uri |-> uri, media_type |-> media_type]

\* mutant: a missing action is taken to be "history"
MarketBranchDefaultAction(payload, action) ==
    IF action = PyStr(s_history) \/ action = PyNone
    THEN CallHistory(PyStr(s_AAPL), PyStr(s_1mo), PyStr(s_1d))
    ELSE Return(UnsupportedMarket(action))

\* mutant: the interval defaults to the client's MarketRequest default, "1h"
MarketBranchClientInterval(payload, action) ==
    IF action = PyStr(s_history)
    THEN LET params == Get(payload, "params", EmptyDict)
         IN  IF ~HasGet(params) THEN Raise("AttributeError")
             ELSE CallHistory(Get(params, "symbol", PyStr(s_AAPL)),
                              Get(params, "range", PyStr(s_1mo)),
                              Get(params, "interval", PyStr(<<"1", "h">>)))
    ELSE Return(UnsupportedMarket(action))

\* mutant: an envelope without action (a subscribe envelope) is answered
\* with a tick
MarketBranchTick(payload, action) ==
    IF action = PyStr(s_history)
    THEN LET params == Get(payload, "params", EmptyDict)
         IN  IF ~HasGet(params) THEN Raise("AttributeError")
             ELSE CallHistory(Get(params, "symbol", PyStr(s_AAPL)),
                              Get(params, "range", PyStr(s_1mo)),
                              Get(params, "interval", PyStr(s_1d)))
    ELSE IF action = PyNone
    THEN Return(PyDict([channel |-> PyStr(s_market),
                        message |-> PyDict([symbol |-> PyStr(s_AAPL)])]))
    ELSE Return(UnsupportedMarket(action))

\* lines 66-74
MarketBranch(payload, action) ==
    IF action = PyStr(s_history)
    THEN LET params == Get(payload, "params", EmptyDict)
         IN  IF ~HasGet(params) THEN Raise("AttributeError")
             ELSE CallHistory(Get(params, "symbol", PyStr(s_AAPL)),
                              Get(params, "range", PyStr(s_1mo)),
                              Get(params, "interval", PyStr(s_1d)))
    ELSE Return(UnsupportedMarket(action))

\* mutant: the server serves the other document actions (ocr, asr) and
\* answers them with a text
DocumentBranchText(payload, action) ==
    IF action = PyStr(s_fetch)
    THEN CallFetch(Get(payload, "uri", PyStr(s_empty)), Get(payload, "media_type", PyNone))
    ELSE Return(PyDict([text |-> PyStr(s_empty)]))

\* lines 76-79
DocumentBranch(payload, action) ==
    IF action = PyStr(s_fetch)
    THEN CallFetch(Get(payload, "uri", PyStr(s_empty)), Get(payload, "media_type", PyNone))
    ELSE Return(UnsupportedDocument(action))

IsMarketChannel(channel) == StartsWith(channel.s, s_market)
\* mutant: the "doc" alias is forgotten
IsDocumentChannelNoAlias(channel) == StartsWith(channel.s, s_document)

IsDocumentChannel(channel) ==
    StartsWith(channel.s, s_document) \/ StartsWith(channel.s, s_doc)

dispatch(message) ==
    IF ~HasGet(message) THEN Raise("AttributeError")
    ELSE LET channel == Get(message, "channel", PyStr(s_empty))
             payload == Get(message, "message", EmptyDict)
         IN  IF ~HasGet(payload) THEN Raise("AttributeError")
             ELSE LET action == Get(payload, "action", PyNone)
                  IN  IF channel.ty # "str" THEN Raise("AttributeError")
                      ELSE IF IsMarketChannel(channel) THEN MarketBranch(payload, action)
                      ELSE IF IsDocumentChannel(channel) THEN DocumentBranch(payload, action)
                      ELSE Return(UnknownChannel(channel))

\* -------------------------------------------------------------- connectors
s_row == <<"r", "o", "w">>
\* what yf.download(...).reset_index() gives: no rows, rows of plain cells, or
\* rows holding pandas Timestamp cells, which json.dumps cannot serialise
ProviderRows == {<<>>, <<PyStr(s_row)>>, <<[ty |-> "timestamp"]>>}

\* MarketConnector.history once the provider call has returned `rows`
history(symbol, rows) ==
    IF rows = <<>>
    THEN PyDict([symbol |-> symbol, data |-> PyList(<<>>), source |-> PyStr(s_yahoo)])
    ELSE PyDict([symbol |-> symbol, data |-> PyList(rows), source |-> PyStr(s_yahoo)])

\* bool(v), as `or` evaluates it
Truthy(v) ==
    CASE v.ty = "none" -> FALSE
      [] v.ty = "str" -> v.s # <<>>
      [] v.ty = "num" -> v.n # 0
      [] v.ty = "bool" -> v.b
      [] v.ty = "list" -> v.xs # <<>>
      [] v.ty = "dict" -> DOMAIN v.d # {}
      [] OTHER -> TRUE

s_octet == <<"application/octet-stream">>
s_ctype == <<"text/html">>
s_b64body == <<"base64(body)">>
\* the responses of the HTTP GET: 2xx with or without a content-type header
HttpResponses == {[status |-> 200, headers |-> ("content-type" :> PyStr(s_ctype))],
                  [status |-> 200, headers |-> <<>>],
                  [status |-> 404, headers |-> <<>>]}

\* DocumentConnector.fetch once client.get has returned `resp`
fetch(uri, media_type, resp) ==
    IF resp.status \notin 200..299 THEN Raise("HTTPStatusError")
    ELSE Return(PyDict([uri |-> uri,
                        media_type |-> IF Truthy(media_type) THEN media_type
                                       ELSE Get([d |-> resp.headers], "content-type", PyStr(s_octet)),
                        content_base64 |-> PyStr(s_b64body)]))

\* whether json.dumps accepts the value
RECURSIVE JsonSerializable(_)
JsonSerializable(v) ==
    CASE v.ty = "dict" -> \A k \in DOMAIN v.d : JsonSerializable(v.d[k])
      [] v.ty \in {"list", "tuple"} -> \A i \in DOMAIN v.xs : JsonSerializable(v.xs[i])
      [] v.ty \in {"str", "num", "bool", "none"} -> TRUE
      [] OTHER -> FALSE

\* ------------------------------------------------------------------- state
Ops == 1..NumOps
ConnIds == 1..NumOps

VARIABLES
    ops,        \* ops[o]: one client call: its arguments, position, connection, outcome
    conns,      \* conns[c]: the client's end of connection c and the frames in flight
    srv,        \* srv[c]: the server's handler coroutine for connection c
    log,        \* log[c]: per received payload, the connector calls made and the outcome
    poolQueue   \* connections whose provider call waits for a worker thread

vars == <<ops, conns, srv, log, poolQueue>>

NoCall == [do |-> "none"]
\* nsent counts the frames the server has sent on the connection
NoConn == [state |-> "none", c2s |-> <<>>, s2c |-> <<>>, nsent |-> 0]
NoHandler == [phase |-> "none", call |-> NoCall]
\* the facade coroutine (MCPMarketClient / MCPDocumentClient) around a bus call:
\* its name, its position, request.symbol, how it ended, the GETs it made on
\* signed URLs and what it has yielded
NoFacade == [name |-> "none", pc |-> "none", symbol |-> PyNone,
             out |-> [st |-> "pending"], gets |-> 0, yielded |-> <<>>]

IdleOp == [pc |-> "idle", kind |-> "none", channel |-> PyNone, message |-> PyNone,
           ws |-> 0, result |-> [st |-> "pending"], items |-> <<>>, sent |-> 0,
           fa |-> NoFacade]

Init ==
    /\ ops = [o \in Ops |-> IdleOp]
    /\ conns = [c \in ConnIds |-> NoConn]
    /\ srv = [c \in ConnIds |-> NoHandler]
    /\ log = [c \in ConnIds |-> <<>>]
    /\ poolQueue = <<>>

\* ------------------------------------------------------------------ server
\* line 35: the provider call runs in the executor, not on the event loop
\* mutant: yf.download is called on the event-loop thread
HistoryOnLoop == FALSE

HistoryOffLoop == TRUE

\* the server's event loop can run a coroutine: no handler holds the loop thread
LoopFree ==
    \A c \in ConnIds : srv[c].phase \in {"queued", "running"} => HistoryOffLoop

Running == {c \in ConnIds : srv[c].phase = "running"}

Pending == [st |-> "pending"]
Sent(response) == [st |-> "sent", body |-> response]
Raised(exc) == [st |-> "raised", exc |-> exc]

\* mutant: the frame is queued on the connection even after the client closed it
ReplyToClosed(cn, response) ==
    IF ~JsonSerializable(response)
    THEN [phase |-> "crashed", conn |-> cn, result |-> Raised("TypeError")]
    ELSE [phase |-> "recv",
          conn |-> [cn EXCEPT !.s2c = Append(@, JsonDumps(response)), !.nsent = @ + 1],
          result |-> Sent(response)]

\* handler line 92 (and 88): json.dumps(response), then websocket.send
Reply(cn, response) ==
    IF ~JsonSerializable(response)
    THEN [phase |-> "crashed", conn |-> cn, result |-> Raised("TypeError")]
    ELSE IF cn.state # "open"
    THEN [phase |-> "ended", conn |-> cn, result |-> Raised("ConnectionClosed")]
    ELSE [phase |-> "recv",
          conn |-> [cn EXCEPT !.s2c = Append(@, JsonDumps(response)), !.nsent = @ + 1],
          result |-> Sent(response)]

\* an exception leaves the handler: websockets closes the connection (1011)
Fail(cn, exc) == [phase |-> "crashed", conn |-> cn, result |-> Raised(exc)]

\* a log entry: the payload taken, the connector calls dispatch made, how the
\* upstream call ended, the response built (lines 88, 91) and what became of it
NoUpstream == [st |-> "none"]
NoResponse == [ty |-> "absent"]
Entry(raw) ==
    [payload |-> raw, calls |-> <<>>, upstream |-> NoUpstream,
     response |-> NoResponse, result |-> Pending]

SetLast(entries, upstream, response, result) ==
    [entries EXCEPT ![Len(entries)] =
        [@ EXCEPT !.upstream = upstream, !.response = response, !.result = result]]

\* mutant: the handler takes the next payload while the connector call made
\* for the previous one is still awaited (one task per payload)
AwaitsPayloadOrConnector(c) == srv[c].phase \in {"recv", "queued", "running", "fetch"}

\* handler line 84: the handler coroutine is suspended in `async for raw in
\* websocket`, it is not inside the loop body (lines 85-92)
AwaitsPayload(c) == srv[c].phase = "recv"

\* handler lines 84-92: take the next payload, decode it, dispatch it up to the
\* first await of a connector
handler(c) ==
    /\ LoopFree
    /\ AwaitsPayload(c)
    /\ conns[c].c2s # <<>>
    /\ LET raw == Head(conns[c].c2s)
           cn == [conns[c] EXCEPT !.c2s = Tail(@)]
           loaded == JsonLoads(raw)
           d == IF loaded.ok THEN dispatch(loaded.v) ELSE Raise(loaded.exc)
           entry == Entry(raw)
       IN  IF d.do \in {"history", "fetch"}
           THEN /\ srv' = [srv EXCEPT ![c] =
                             [phase |-> IF d.do = "history" THEN "queued" ELSE "fetch",
                              call |-> d]]
                /\ conns' = [conns EXCEPT ![c] = cn]
                /\ log' = [log EXCEPT ![c] = Append(@, [entry EXCEPT !.calls = <<d>>])]
                /\ poolQueue' = IF d.do = "history" THEN Append(poolQueue, c) ELSE poolQueue
           ELSE LET r == IF d.do = "return" THEN Reply(cn, d.response)
                         ELSE IF d.exc = "JSONDecodeError" THEN Reply(cn, InvalidJson)
                         ELSE Fail(cn, d.exc)
                IN  /\ srv' = [srv EXCEPT ![c] = [phase |-> r.phase, call |-> NoCall]]
                    /\ conns' = [conns EXCEPT ![c] = r.conn]
                    /\ log' = [log EXCEPT ![c] = Append(@,
                                  [entry EXCEPT !.result = r.result,
                                                !.response = IF d.do = "return" THEN d.response
                                                             ELSE IF d.exc = "JSONDecodeError"
                                                             THEN InvalidJson
                                                             ELSE NoResponse])]
                    /\ UNCHANGED poolQueue
    /\ UNCHANGED ops

\* a worker thread of the default executor takes the oldest waiting provider call
PoolStart(c) ==
    /\ poolQueue # <<>>
    /\ Head(poolQueue) = c
    /\ Cardinality(Running) < PoolSize
    /\ poolQueue' = Tail(poolQueue)
    /\ srv' = [srv EXCEPT ![c].phase = "running"]
    /\ UNCHANGED <<ops, conns, log>>

Finish(c, r, upstream, response) ==
    /\ srv' = [srv EXCEPT ![c] = [phase |-> r.phase, call |-> NoCall]]
    /\ conns' = [conns EXCEPT ![c] = r.conn]
    /\ log' = [log EXCEPT ![c] = SetLast(@, upstream, response, r.result)]
    /\ UNCHANGED <<ops, poolQueue>>

\* the provider call returns: history lines 36-39, then handler line 92
history_return(c) ==
    /\ srv[c].phase = "running"
    /\ \E rows \in ProviderRows :
          LET response == history(srv[c].call.symbol, rows)
          IN  Finish(c, Reply(conns[c], response),
                     [st |-> "returned", rows |-> rows], response)

\* the provider call raises: the exception leaves history, dispatch and handler
history_raise(c) ==
    /\ srv[c].phase = "running"
    /\ Finish(c, Fail(conns[c], "ProviderError"), [st |-> "raised"], NoResponse)

\* the HTTP GET returns: fetch lines 48-50, then handler line 92
fetch_return(c) ==
    /\ LoopFree
    /\ srv[c].phase = "fetch"
    /\ \E resp \in HttpResponses :
          LET d == fetch(srv[c].call.uri, srv[c].call.media_type, resp)
          IN  IF d.do = "return"
              THEN Finish(c, Reply(conns[c], d.response),
                          [st |-> "returned"], d.response)
              ELSE Finish(c, Fail(conns[c], d.exc), [st |-> "raised"], NoResponse)

\* the HTTP GET fails (no route, timeout after 30 s, bad URL)
fetch_raise(c) ==
    /\ LoopFree
    /\ srv[c].phase = "fetch"
    /\ Finish(c, Fail(conns[c], "HTTPError"), [st |-> "raised"], NoResponse)

\* handler line 84: the connection is closed (by the client, or lost) and every
\* frame was taken: the iteration ends and the handler is left
handler_end(c) ==
    /\ LoopFree
    /\ AwaitsPayload(c)
    /\ conns[c].c2s = <<>>
    /\ conns[c].state \in {"closed", "lost"}
    /\ srv' = [srv EXCEPT ![c].phase = "ended"]
    /\ UNCHANGED <<ops, conns, log, poolQueue>>

\* the transport fails (network loss): the frames in flight are lost and both
\* ends find the connection closed
conn_lost(c) ==
    /\ conns[c].state = "open"
    /\ ~(srv[c].phase \in {"crashed", "ended"})
    /\ conns' = [conns EXCEPT ![c] = [@ EXCEPT !.state = "lost", !.c2s = <<>>, !.s2c = <<>>]]
    /\ UNCHANGED <<ops, srv, log, poolQueue>>

Server(c) ==
    \/ handler(c)
    \/ PoolStart(c)
    \/ history_return(c)
    \/ history_raise(c)
    \/ fetch_return(c)
    \/ fetch_raise(c)
    \/ handler_end(c)

\* ------------------------------------------------------------------ client
s_news == <<"n", "e", "w", "s">>
s_bogus == <<"b", "o", "g", "u", "s">>
s_MSFT == <<"M", "S", "F", "T">>
s_1h == <<"1", "h">>
s_uri == <<"http://host/a.pdf">>
s_pdf == <<"application/pdf">>

\* MCPMarketClient.fetch_history's message for MarketRequest("MSFT")
HistoryMessage ==
    PyDict([action |-> PyStr(s_history),
            params |-> PyDict([symbol |-> PyStr(s_MSFT), range |-> PyStr(s_1mo),
                               interval |-> PyStr(s_1h)])])
\* MCPDocumentClient.fetch's message for DocumentRequest(uri)
FetchMessage ==
    PyDict([action |-> PyStr(s_fetch), uri |-> PyStr(s_uri), media_type |-> PyStr(s_pdf)])
BogusMessage == PyDict([action |-> PyStr(s_bogus)])
TickMessage == PyDict([symbol |-> PyStr(s_MSFT)])

\* the calls a client makes: kind, channel, message
Call(kind, channel, message) == [kind |-> kind, channel |-> PyStr(channel), message |-> message]
Calls ==
    { Call("request", s_market, HistoryMessage),
      Call("request", s_market, BogusMessage),
      Call("request", s_document, FetchMessage),
      Call("publish", s_market, TickMessage),
      Call("subscribe", s_market, PyNone) }

\* the frames a foreign peer (any other WebSocket client) sends
PeerFrames ==
    { NotJson, Undecodable, JsonDumps(PyList(<<>>)),
      JsonDumps(PyDict([channel |-> PyStr(s_market), message |-> PyStr(s_bogus)])),
      JsonDumps(PyDict([channel |-> PyStr(s_market), message |-> HistoryMessage])),
      JsonDumps(PyDict([channel |-> PyStr(s_doc), message |-> FetchMessage])),
      JsonDumps(PyDict([channel |-> PyStr(s_news), message |-> EmptyDict])) }

\* mutant: every envelope asks for a reply
EnvelopeWithReply(op) ==
    PyDict([channel |-> op.channel, message |-> op.message, reply |-> PyBool(TRUE)])

\* the envelope each operation builds (lines 41, 45, 54)
Envelope(op) ==
    CASE op.kind = "publish" -> PyDict([channel |-> op.channel, message |-> op.message])
      [] op.kind = "subscribe" -> PyDict([channel |-> op.channel, subscribe |-> PyBool(TRUE)])
      [] op.kind = "request" ->
            PyDict([channel |-> op.channel, message |-> op.message, reply |-> PyBool(TRUE)])

\* websockets.connect(self.endpoint): every call makes a connection of its own
FreshConn(o) == o

\* the client's end finds the connection closed by the server, or lost
ServerGone(c) == srv[c].phase \in {"crashed", "ended"} \/ conns[c].state = "lost"

\* mutant: the connection is left open on the way out
LeftOpen(cn) == cn

\* leaving `async with websockets.connect(...)`: the connection is closed and
\* the frames not yet read are dropped
CloseOnExit(cn) == [cn EXCEPT !.state = "closed", !.s2c = <<>>]

Returned(v) == [st |-> "returned", v |-> v]

\* the call returns or raises: the `async with` block is left on the way out
Leave(o, result) ==
    /\ ops' = [ops EXCEPT ![o].pc = "done", ![o].result = result]
    /\ conns' = [conns EXCEPT ![ops[o].ws] = CloseOnExit(@)]
    /\ UNCHANGED <<srv, log, poolQueue>>

\* websockets.connect: the connection is established and the server starts a
\* handler for it; a connection that is already open is left as it is
Establish(c) ==
    IF conns[c].state = "open"
    THEN UNCHANGED <<conns, srv>>
    ELSE /\ conns' = [conns EXCEPT ![c] = [NoConn EXCEPT !.state = "open"]]
         /\ srv' = [srv EXCEPT ![c] = [phase |-> "recv", call |-> NoCall]]

\* lines 40, 44, 53: the call starts and enters `async with websockets.connect`
connect(o) ==
    /\ ops[o].pc = "idle"
    /\ \E call \in Calls :
          ops' = [ops EXCEPT ![o] = [@ EXCEPT !.pc = "opened", !.kind = call.kind,
                                        !.channel = call.channel,
                                        !.message = call.message, !.ws = FreshConn(o)]]
    /\ Establish(FreshConn(o))
    /\ UNCHANGED <<log, poolQueue>>

\* lines 41, 45, 54: ws.send(json.dumps(envelope))
send(o) ==
    /\ ops[o].pc = "opened"
    /\ ops[o].kind \in {"publish", "subscribe", "request"}
    /\ IF ~JsonSerializable(Envelope(ops[o]))
       THEN Leave(o, Raised("TypeError"))
       ELSE IF ServerGone(ops[o].ws)
       THEN Leave(o, Raised("ConnectionClosed"))
       ELSE /\ conns' = [conns EXCEPT ![ops[o].ws].c2s = Append(@, JsonDumps(Envelope(ops[o])))]
            /\ ops' = [ops EXCEPT ![o].pc =
                          CASE ops[o].kind = "publish" -> "sent"
                            [] ops[o].kind = "subscribe" -> "iter"
                            [] ops[o].kind = "request" -> "waiting",
                        ![o].sent = 1]
            /\ UNCHANGED <<srv, log, poolQueue>>

\* publish, line 41: the send has completed, the call returns None
publish_return(o) ==
    /\ ops[o].pc = "sent"
    /\ Leave(o, Returned(PyNone))

\* request lines 59-62: the frame received within the timeout is decoded
RequestResult(raw) ==
    LET loaded == JsonLoads(raw)
    IN  IF loaded.ok THEN Returned(loaded.v)
        ELSE IF loaded.exc = "JSONDecodeError"
        THEN Returned(PyDict([payload |-> [ty |-> "str", raw |-> raw]]))
        ELSE Raised(loaded.exc)

request_recv(o) ==
    /\ ops[o].pc = "waiting"
    /\ conns[ops[o].ws].s2c # <<>>
    /\ Leave(o, RequestResult(Head(conns[ops[o].ws].s2c)))

\* mutant: the bare asyncio.TimeoutError is let through
BareTimeoutError(channel) == [st |-> "raised", exc |-> "TimeoutError", text |-> <<>>]

\* request lines 57-58: TimeoutError("MCP bus request to {channel} timed out")
TimeoutError(channel) ==
    [st |-> "raised", exc |-> "TimeoutError",
     text |-> <<"MCP bus request to ">> \o Format(channel) \o <<" timed out">>]

request_timeout(o) ==
    /\ ops[o].pc = "waiting"
    /\ Leave(o, TimeoutError(ops[o].channel))

\* subscribe lines 46-50: the next frame is decoded and yielded
SubscribeItem(op, raw) ==
    LET loaded == JsonLoads(raw)
    IN  IF loaded.ok THEN Returned(loaded.v)
        ELSE IF loaded.exc = "JSONDecodeError"
        THEN Returned(PyDict([channel |-> op.channel, message |-> [ty |-> "str", raw |-> raw]]))
        ELSE Raised(loaded.exc)

subscribe_recv(o) ==
    /\ ops[o].pc = "iter"
    /\ conns[ops[o].ws].s2c # <<>>
    /\ LET item == SubscribeItem(ops[o], Head(conns[ops[o].ws].s2c))
       IN  IF item.st = "raised" THEN Leave(o, item)
           ELSE /\ ops' = [ops EXCEPT ![o].pc = "yielded", ![o].items = Append(@, item.v)]
                /\ conns' = [conns EXCEPT ![ops[o].ws].s2c = Tail(@)]
                /\ UNCHANGED <<srv, log, poolQueue>>

\* the consumer asks for the next element
subscribe_next(o) ==
    /\ ops[o].pc = "yielded"
    /\ ops' = [ops EXCEPT ![o].pc = "iter"]
    /\ UNCHANGED <<conns, srv, log, poolQueue>>

\* lines 46 and 56: the awaited receive finds the connection closed.  request:
\* ws.recv() raises ConnectionClosed, which line 57 does not catch.  subscribe:
\* the iteration ends after a normal closure and raises ConnectionClosedError
\* otherwise (the handler failed, the transport was lost)
recv_closed(o) ==
    /\ ops[o].pc \in {"waiting", "iter"}
    /\ conns[ops[o].ws].s2c = <<>>
    /\ ServerGone(ops[o].ws)
    /\ Leave(o, IF /\ ops[o].pc = "iter"
                   /\ srv[ops[o].ws].phase = "ended"
                   /\ conns[ops[o].ws].state = "open"
                THEN Returned(PyNone)
                ELSE Raised("ConnectionClosed"))

\* the consumer closes the sequence (aclose): GeneratorExit at the yield
subscribe_aclose(o) ==
    /\ ops[o].pc = "yielded"
    /\ Leave(o, Raised("GeneratorExit"))

\* the consumer stops iterating and drops the sequence without closing it: the
\* generator stays suspended at its yield, inside `async with`
subscribe_abandon(o) ==
    /\ ops[o].pc = "yielded"
    /\ ops' = [ops EXCEPT ![o].pc = "abandoned"]
    /\ UNCHANGED <<conns, srv, log, poolQueue>>

\* the event loop's asynchronous-generator finalizer closes the dropped generator
subscribe_finalize(o) ==
    /\ ops[o].pc = "abandoned"
    /\ Leave(o, Raised("GeneratorExit"))

\* the task running the call is cancelled while it awaits inside `async with`
cancel(o) ==
    /\ ops[o].pc \in {"opened", "waiting", "iter"}
    /\ ops[o].kind \in {"publish", "subscribe", "request"}
    /\ Leave(o, Raised("CancelledError"))

\* a foreign peer (any other WebSocket client) connects, sends any frame,
\* reads a response, or closes
peer_connect(o) ==
    /\ ops[o].pc = "idle"
    /\ ops' = [ops EXCEPT ![o] = [@ EXCEPT !.pc = "opened", !.kind = "peer", !.ws = o]]
    /\ Establish(o)
    /\ UNCHANGED <<log, poolQueue>>

peer_send(o) ==
    /\ ops[o].pc = "opened"
    /\ ops[o].kind = "peer"
    /\ ops[o].sent < MaxFrames
    /\ conns[ops[o].ws].state = "open"
    /\ ~ServerGone(ops[o].ws)
    /\ \E frame \in PeerFrames :
          conns' = [conns EXCEPT ![ops[o].ws].c2s = Append(@, frame)]
    /\ ops' = [ops EXCEPT ![o].sent = @ + 1]
    /\ UNCHANGED <<srv, log, poolQueue>>

peer_recv(o) ==
    /\ ops[o].pc = "opened"
    /\ ops[o].kind = "peer"
    /\ conns[ops[o].ws].s2c # <<>>
    /\ conns' = [conns EXCEPT ![ops[o].ws].s2c = Tail(@)]
    /\ UNCHANGED <<ops, srv, log, poolQueue>>

peer_close(o) ==
    /\ ops[o].pc = "opened"
    /\ ops[o].kind = "peer"
    /\ Leave(o, Returned(PyNone))

Client(o) ==
    \/ connect(o)
    \/ send(o)
    \/ publish_return(o)
    \/ request_recv(o)
    \/ request_timeout(o)
    \/ subscribe_recv(o)
    \/ subscribe_next(o)
    \/ recv_closed(o)
    \/ subscribe_aclose(o)
    \/ subscribe_abandon(o)
    \/ subscribe_finalize(o)
    \/ cancel(o)

Peer(o) ==
    \/ peer_connect(o)
    \/ peer_send(o)
    \/ peer_recv(o)
    \/ peer_close(o)

Next ==
    \/ \E o \in Ops : Client(o)
    \/ \E c \in ConnIds : Server(c)

Spec == Init /\ [][Next]_vars

\* one call of the bus client against any server: a foreign server sends any
\* frames, at any time or never, and closes when it likes
ServerFrames ==
    { JsonDumps(PyDict([channel |-> PyStr(s_market), message |-> TickMessage])),
      JsonDumps(PyDict([text |-> PyStr(s_row)])),
      NotJson }

server_send(c) ==
    /\ conns[c].state = "open"
    /\ srv[c].phase = "recv"
    /\ conns[c].nsent < MaxFrames
    /\ \E frame \in ServerFrames :
          conns' = [conns EXCEPT ![c].s2c = Append(@, frame), ![c].nsent = @ + 1]
    /\ UNCHANGED <<ops, srv, log, poolQueue>>

server_close(c) ==
    /\ conns[c].state = "open"
    /\ srv[c].phase = "recv"
    /\ srv' = [srv EXCEPT ![c].phase = "ended"]
    /\ UNCHANGED <<ops, conns, log, poolQueue>>

NextClient == Client(1) \/ server_send(1) \/ server_close(1) \/ conn_lost(1)

SpecClient == Init /\ [][NextClient]_vars

\* ------------------------------------------------------- routing of one frame
s_place == <<"p", "l", "a", "c", "e">>
s_mark == <<"m", "a", "r", "k">>
s_do == <<"d", "o">>
s_s == <<"s">>
s_unknownchan == <<"u", "n", "k", "n", "o", "w", "n", "c", "h", "a", "n">>
s_5d == <<"5", "d">>

\* a key that is absent, or present with one of the values
Opt(key, values) == {<<>>} \cup {key :> v : v \in values}

RoutingChannels ==
    {PyStr(ch) : ch \in {s_market, s_market \o s_place, s_mark, s_document,
                         s_document \o s_s, s_doc, s_doc \o s_s, s_do,
                         s_unknownchan, s_empty}}
      \cup {PyNum(5), PyNone}

RoutingParams ==
    {EmptyDict, PyNone,
     PyDict([symbol |-> PyStr(s_MSFT)]),
     PyDict([range |-> PyStr(s_5d)]),
     PyDict([symbol |-> PyStr(s_MSFT), range |-> PyStr(s_5d), interval |-> PyStr(s_1h)])}

RoutingMessages ==
    {PyDict(a @@ p @@ u @@ m) :
        a \in Opt("action", {PyStr(s_history), PyStr(s_fetch), PyStr(s_bogus), PyNone}),
        p \in Opt("params", RoutingParams),
        u \in Opt("uri", {PyStr(s_uri)}),
        m \in Opt("media_type", {PyStr(s_pdf), PyStr(s_empty)})}
      \cup {PyStr(s_bogus), PyNone, PyList(<<>>)}

RoutingFlags ==
    {<<>>, "reply" :> PyBool(TRUE), "subscribe" :> PyBool(TRUE)}

\* every frame the routing is tried on
RoutingFrames ==
    {JsonDumps(PyDict(ch @@ msg @@ fl)) :
        ch \in Opt("channel", RoutingChannels),
        msg \in Opt("message", RoutingMessages),
        fl \in RoutingFlags}
      \cup {JsonDumps(PyList(<<>>)), JsonDumps(PyStr(s_bogus)), JsonDumps(PyNum(5)),
            JsonDumps(PyNone), NotJson, Undecodable}

\* a peer has connected and sent one frame
InitRouting ==
    /\ \E frame \in RoutingFrames :
          conns = [c \in ConnIds |-> IF c = 1 THEN [NoConn EXCEPT !.state = "open",
                                                                  !.c2s = <<frame>>]
                                     ELSE NoConn]
    /\ ops = [o \in Ops |-> IF o = 1 THEN [IdleOp EXCEPT !.pc = "opened", !.kind = "peer",
                                                         !.ws = 1, !.sent = MaxFrames]
                             ELSE IdleOp]
    /\ srv = [c \in ConnIds |-> IF c = 1 THEN [phase |-> "recv", call |-> NoCall]
                               ELSE NoHandler]
    /\ log = [c \in ConnIds |-> <<>>]
    /\ poolQueue = <<>>

NextRouting == Server(1) \/ peer_recv(1) \/ peer_close(1)

SpecRouting == InitRouting /\ [][NextRouting]_vars

\* ---------------------------------------------------------------- routing
\* The entry of the one frame handled, and the parts of its envelope.
Handled == log[1] # <<>>
TheEntry == log[1][1]
TheEnvelope == TheEntry.payload.v
\* the frame decodes to an envelope: a mapping whose channel, when present, is
\* a string and whose message, when present, is a mapping
IsEnvelope(raw) ==
    /\ raw.fr = "json"
    /\ raw.v.ty = "dict"
    /\ ("channel" \in DOMAIN raw.v.d => raw.v.d.channel.ty = "str")
    /\ ("message" \in DOMAIN raw.v.d => raw.v.d.message.ty = "dict")
ChannelOf(env) == IF "channel" \in DOMAIN env.d THEN env.d.channel.s ELSE <<>>
MessageOf(env) == IF "message" \in DOMAIN env.d THEN env.d.message.d ELSE <<>>
ActionOf(env) == IF "action" \in DOMAIN MessageOf(env) THEN MessageOf(env).action ELSE PyNone
HasPrefix(ch, prefix) ==
    /\ Len(ch) >= Len(prefix)
    /\ \A i \in 1..Len(prefix) : ch[i] = prefix[i]
MarketPrefix(ch) == HasPrefix(ch, <<"m", "a", "r", "k", "e", "t">>)
DocumentPrefix(ch) ==
    \/ HasPrefix(ch, <<"d", "o", "c", "u", "m", "e", "n", "t">>)
    \/ HasPrefix(ch, <<"d", "o", "c">>)
ErrorText(response) ==
    IF response.ty = "dict" /\ DOMAIN response.d = {"error"} THEN response.d.error.s
    ELSE <<>>
IsUnknownChannelError(response) ==
    ErrorText(response) # <<>> /\ Head(ErrorText(response)) = "Unknown channel: "

\* C7: an envelope whose channel (missing counts as "") starts with none of
\* "market", "document", "doc" gets, whatever its action, exactly the response
\* {"error": "Unknown channel: <channel>"} and no connector is invoked; an
\* envelope whose channel has one of the prefixes never gets that error.
C7_UnknownChannel ==
    (Handled /\ IsEnvelope(TheEntry.payload)) =>
        LET ch == ChannelOf(TheEnvelope)
        IN  IF ~MarketPrefix(ch) /\ ~DocumentPrefix(ch)
            THEN /\ TheEntry.response =
                        PyDict([error |-> PyStr(<<"Unknown channel: ">> \o ch)])
                 /\ TheEntry.calls = <<>>
            ELSE ~IsUnknownChannelError(TheEntry.response)

\* a channel that is a proper prefix of "market" was answered Unknown channel
C7_Witness ==
    /\ Handled
    /\ IsEnvelope(TheEntry.payload)
    /\ ChannelOf(TheEnvelope) = <<"m", "a", "r", "k">>
    /\ ActionOf(TheEnvelope) = PyStr(s_history)
    /\ TheEntry.result = Sent(PyDict([error |-> PyStr(<<"Unknown channel: ", "m", "a", "r", "k">>)]))

\* C8: a market-prefixed envelope whose action is not "history" (absent is
\* rendered None) gets {"error": "Unsupported market action: <action>"}, a
\* document- or doc-prefixed one whose action is not "fetch" gets
\* {"error": "Unsupported document action: <action>"}; no connector is invoked
\* and the handler does not fail.
C8_UnsupportedAction ==
    (Handled /\ IsEnvelope(TheEntry.payload)) =>
        LET ch == ChannelOf(TheEnvelope)
            action == ActionOf(TheEnvelope)
        IN  /\ (MarketPrefix(ch) /\ action # PyStr(<<"h", "i", "s", "t", "o", "r", "y">>)) =>
                  /\ TheEntry.response =
                        PyDict([error |-> PyStr(<<"Unsupported market action: ">> \o Format(action))])
                  /\ TheEntry.calls = <<>>
                  /\ srv[1].phase # "crashed"
            /\ (DocumentPrefix(ch) /\ action # PyStr(<<"f", "e", "t", "c", "h">>)) =>
                  /\ TheEntry.response =
                        PyDict([error |-> PyStr(<<"Unsupported document action: ">> \o Format(action))])
                  /\ TheEntry.calls = <<>>
                  /\ srv[1].phase # "crashed"

\* a market envelope without action and a doc envelope with action "history"
\* were each answered with their Unsupported ... action error
C8_Witness ==
    /\ Handled
    /\ IsEnvelope(TheEntry.payload)
    /\ \/ /\ ChannelOf(TheEnvelope) = s_market \o s_place
          /\ "action" \notin DOMAIN MessageOf(TheEnvelope)
          /\ TheEntry.result = Sent(PyDict([error |-> PyStr(
                                   <<"Unsupported market action: ", "N", "o", "n", "e">>)]))
       \/ /\ ChannelOf(TheEnvelope) = s_doc \o s_s
          /\ ActionOf(TheEnvelope) = PyStr(s_history)
          /\ TheEntry.result = Sent(PyDict([error |-> PyStr(
                                   <<"Unsupported document action: ">> \o s_history)]))
    /\ srv[1].phase = "recv"

\* the params of a history envelope: absent, or a mapping
ParamsOf(env) ==
    IF "params" \in DOMAIN MessageOf(env) THEN MessageOf(env).params ELSE PyDict(<<>>)
Param(env, key, default) ==
    IF key \in DOMAIN ParamsOf(env).d THEN ParamsOf(env).d[key] ELSE PyStr(default)

\* C9: a market-prefixed envelope with action "history" (params absent or a
\* mapping) makes exactly one Market Connector call, with symbol, range and
\* interval from message.params and "AAPL", "1mo", "1d" for the absent ones;
\* the response built has that symbol, source "yahoo" and a data sequence,
\* which is empty when the provider returned no rows.
C9_History ==
    (/\ Handled
     /\ IsEnvelope(TheEntry.payload)
     /\ MarketPrefix(ChannelOf(TheEnvelope))
     /\ ActionOf(TheEnvelope) = PyStr(<<"h", "i", "s", "t", "o", "r", "y">>)
     /\ ParamsOf(TheEnvelope).ty = "dict") =>
        LET symbol == Param(TheEnvelope, "symbol", <<"A", "A", "P", "L">>)
            range == Param(TheEnvelope, "range", <<"1", "m", "o">>)
            interval == Param(TheEnvelope, "interval", <<"1", "d">>)
        IN  /\ Len(TheEntry.calls) = 1
            /\ TheEntry.calls[1].connector = "market"
            /\ TheEntry.calls[1].symbol = symbol
            /\ TheEntry.calls[1].range = range
            /\ TheEntry.calls[1].interval = interval
            /\ TheEntry.upstream.st = "returned" =>
                  /\ DOMAIN TheEntry.response.d = {"symbol", "data", "source"}
                  /\ TheEntry.response.d.symbol = symbol
                  /\ TheEntry.response.d.source = PyStr(<<"y", "a", "h", "o", "o">>)
                  /\ TheEntry.response.d.data.ty = "list"
                  /\ TheEntry.response.d.data.xs = TheEntry.upstream.rows
            /\ TheEntry.upstream.st # "returned" => TheEntry.response = NoResponse

\* a history envelope giving only its range was served with the default
\* symbol and interval, and the provider's empty result was sent as data []
C9_Witness ==
    /\ Handled
    /\ IsEnvelope(TheEntry.payload)
    /\ ChannelOf(TheEnvelope) = s_market
    /\ ActionOf(TheEnvelope) = PyStr(s_history)
    /\ ParamsOf(TheEnvelope) = PyDict([range |-> PyStr(s_5d)])
    /\ TheEntry.upstream = [st |-> "returned", rows |-> <<>>]
    /\ TheEntry.result = Sent(PyDict([symbol |-> PyStr(s_AAPL), data |-> PyList(<<>>),
                                      source |-> PyStr(s_yahoo)]))

\* one foreign peer and its handler
NextPeer == Peer(1) \/ Server(1) \/ conn_lost(1)

SpecPeer == Init /\ [][NextPeer]_vars

\* ------------------------------------------------- the handler's guarantees
Entries(c) == {log[c][i] : i \in 1..Len(log[c])}
IsErrorEnvelope(response) ==
    response.ty = "dict" /\ DOMAIN response.d = {"error"} /\ response.d.error.ty = "str"
\* the handler was ended by an exception while the client held the connection open
HandlerFailed(c) == srv[c].phase = "crashed" /\ conns[c].state = "open"

\* C1: on an open connection every payload the handler has finished with was
\* answered by a response sent on that connection, and the handler is never
\* ended by an exception while the connection is open.
C1_EveryPayloadAnswered ==
    \A c \in ConnIds :
        /\ ~HandlerFailed(c)
        /\ conns[c].state = "open" =>
              \A e \in Entries(c) : e.result.st \in {"pending", "sent"}

\* C2: when the connector call made for a payload fails, an error envelope is
\* sent for that payload and the handler goes on serving the connection.
C2_ConnectorFailureAnswered ==
    \A c \in ConnIds : \A e \in Entries(c) :
        (e.upstream.st = "raised" /\ conns[c].state = "open") =>
            /\ e.result.st = "sent"
            /\ IsErrorEnvelope(e.result.body)
            /\ srv[c].phase # "crashed"

\* C3: a payload that fails to decode is answered with the structured error
\* for an invalid payload, no connector is invoked for it, and the handler goes
\* on serving the connection.  (The text of the error is left open here.)
C3_InvalidPayloadAnswered ==
    \A c \in ConnIds : \A e \in Entries(c) :
        (~JsonLoads(e.payload).ok /\ conns[c].state = "open") =>
            /\ e.result.st = "sent"
            /\ IsErrorEnvelope(e.result.body)
            /\ e.calls = <<>>
            /\ srv[c].phase # "crashed"

\* ------------------------------------------------------ one call, any server
\* the timer of asyncio.wait_for fires while the request still waits
SpecClientFair == SpecClient /\ WF_vars(request_timeout(1))

IsRequestTimeout(result, channel) ==
    /\ result.st = "raised"
    /\ result.exc = "TimeoutError"
    /\ result.text = <<"MCP bus request to ">> \o channel.s \o <<" timed out">>

\* C4: a request to which the server never replies (it sends no frame and
\* does not close the connection; the caller does not cancel) ends: it fails
\* with the TimeoutError whose message names the channel, and its connection
\* is closed by then.
C4_RequestTimesOut ==
    /\ [](\A o \in Ops :
            (/\ ops[o].kind = "request"
             /\ ops[o].pc = "done"
             /\ conns[ops[o].ws].nsent = 0
             /\ ops[o].result \notin {Raised("ConnectionClosed"), Raised("CancelledError")})
            => /\ IsRequestTimeout(ops[o].result, ops[o].channel)
               /\ conns[ops[o].ws].state = "closed")
    /\ \A o \in Ops :
          (ops[o].kind = "request" /\ ops[o].pc = "waiting") ~> (ops[o].pc = "done")

\* the server was sent the request, never replied and still holds the
\* connection; the request has failed with the timeout naming "market"
C4_Witness ==
    /\ ops[1].kind = "request"
    /\ ops[1].pc = "done"
    /\ ops[1].result = [st |-> "raised", exc |-> "TimeoutError",
                        text |-> <<"MCP bus request to ", "m", "a", "r", "k", "e", "t",
                                   " timed out">>]
    /\ conns[1].nsent = 0
    /\ Len(conns[1].c2s) = 1
    /\ srv[1].phase = "recv"
    /\ conns[1].state = "closed"

\* a call is in progress from its connect until it has returned or raised (a
\* subscription: until its generator has been closed or finalized)
InProgress(o) == ops[o].pc \notin {"idle", "done"}

\* C5: every publish, subscribe and request holds one connection of its own
\* while it is in progress and has closed it when it is left, on every exit
\* path; with no call in progress no connection is open.
C5_ConnectionsReleased ==
    /\ \A o \in Ops :
          /\ InProgress(o) => ops[o].ws = o /\ conns[o].state \in {"open", "lost"}
          /\ ops[o].pc = "done" => conns[ops[o].ws].state = "closed"
    /\ \A c \in ConnIds :
          conns[c].state = "open" => \E o \in Ops : InProgress(o) /\ ops[o].ws = c

\* each exit path of the three operations was taken and left the connection
\* closed: here, a request that fell back to {"payload": raw}
C5_Witness ==
    /\ ops[1].kind = "request"
    /\ ops[1].pc = "done"
    /\ ops[1].result = Returned(PyDict([payload |-> [ty |-> "str", raw |-> NotJson]]))
    /\ conns[1].state = "closed"
    /\ \A c \in ConnIds : conns[c].state # "open"

\* ------------------------------------------------- scheduling of the server
\* the connections whose provider call may never return: as many as the
\* default executor has worker threads
SlowConns == 1..PoolSize

\* the event loop runs every coroutine that is ready, a free worker thread
\* takes the oldest submitted call, an HTTP GET ends within its 30 s timeout;
\* a provider call ends except on the slow connections
SpecFair ==
    /\ Spec
    /\ \A c \in ConnIds :
          /\ WF_vars(handler(c))
          /\ WF_vars(PoolStart(c))
          /\ WF_vars(fetch_return(c) \/ fetch_raise(c))
          /\ WF_vars(handler_end(c))
    /\ \A c \in ConnIds \ SlowConns : WF_vars(history_return(c) \/ history_raise(c))

\* the value a request returned was decoded from the response the server
\* sent for that request's own envelope, on that request's own connection
OwnResponse(o) ==
    \E e \in Entries(ops[o].ws) :
        /\ e.payload = JsonDumps(Envelope(ops[o]))
        /\ e.result.st = "sent"
        /\ ops[o].result = RequestResult(JsonDumps(e.result.body))

AwaitsProvider(c) == srv[c].phase \in {"queued", "running"}

\* C6: concurrent requests use connections of their own, a request returns
\* only the response produced for its own envelope, and a request that is
\* slow (its provider call never returns) does not delay a concurrent request
\* for ever: on every other connection a provider call that was submitted is
\* eventually over.
C6_RequestsIsolated ==
    /\ [](\A o1, o2 \in Ops :
            (o1 # o2 /\ ops[o1].pc # "idle" /\ ops[o2].pc # "idle")
                => ops[o1].ws # ops[o2].ws)
    /\ [](\A o \in Ops :
            (ops[o].kind = "request" /\ ops[o].pc = "done"
                /\ ops[o].result.st = "returned") => OwnResponse(o))
    /\ \A c \in ConnIds \ SlowConns : AwaitsProvider(c) ~> ~AwaitsProvider(c)

\* a payload that needs no provider call: it does not decode, or dispatch
\* returns its response without awaiting a connector
NeedsNoProvider(raw) ==
    LET loaded == JsonLoads(raw)
    IN  IF loaded.ok THEN dispatch(loaded.v).do = "return"
        ELSE loaded.exc = "JSONDecodeError"

Waiting(c, n) ==
    /\ srv[c].phase = "recv"
    /\ Len(log[c]) = n
    /\ conns[c].c2s # <<>>
    /\ NeedsNoProvider(Head(conns[c].c2s))

\* the payload was taken and its response sent, unless the client had closed
\* the connection by then
Answered(c, n) ==
    /\ Len(log[c]) > n
    /\ log[c][n + 1].calls = <<>>
    /\ \/ log[c][n + 1].result.st = "sent"
       \/ log[c][n + 1].result = Raised("ConnectionClosed")

\* C10: a payload that needs no provider call is taken and answered on its
\* connection whatever the provider calls of the other connections do, even
\* when one of them never returns.
C10_OtherConnectionsServed ==
    \A c \in ConnIds : \A n \in 0..MaxFrames : Waiting(c, n) ~> Answered(c, n)

\* connection 1 still waits for its provider call while connection 2 has
\* been sent the response to a payload that needed none
C10_Witness ==
    /\ srv[1].phase = "running"
    /\ log[1][1].result = Pending
    /\ Len(log[2]) = 1
    /\ log[2][1].calls = <<>>
    /\ log[2][1].result.st = "sent"
    /\ conns[2].s2c # <<>>

\* ------------------------------------------------------- the typed facades
PyBytes(b) == [ty |-> "bytes", b |-> b]

s_ocr == <<"o", "c", "r">>
s_asr == <<"a", "s", "r">>
s_text == <<"t", "e", "x", "t">>
s_body == <<"body">>
s_signed == <<"https://store/signed">>
s_remote == <<"remote body">>

\* base64.b64decode of a str (line 104)
B64Decode(v) ==
    IF v.ty # "str" THEN Raise("TypeError")
    ELSE IF v.s = s_b64body THEN Return(PyBytes(s_body))
    ELSE IF v.s = <<>> THEN Return(PyBytes(<<>>))
    ELSE Raise("binascii.Error")

MissingContent ==
    [st |-> "raised", exc |-> "ValueError",
     text |-> <<"MCP fetch response missing content">>]

\* MCPDocumentClient.fetch lines 102-113, up to the GET of the signed URL
Resolve(resp) ==
    IF ~HasGet(resp) THEN Raise("AttributeError")
    ELSE LET content_b64 == Get(resp, "content_base64", PyNone)
         IN  IF Truthy(content_b64) THEN B64Decode(content_b64)
             ELSE IF "content" \in DOMAIN resp.d /\ resp.d.content.ty = "bytes"
             THEN Return(resp.d.content)
             ELSE IF "signed_url" \in DOMAIN resp.d
             THEN [do |-> "get", url |-> resp.d.signed_url]
             ELSE [do |-> "raise", exc |-> "ValueError"]

MissingText(what) ==
    [st |-> "raised", exc |-> "ValueError",
     text |-> <<"MCP ">> \o what \o <<" response missing text">>]

\* mutant: a response without text yields None
TextOrNone(resp, what) ==
    IF resp.ty = "dict" /\ "text" \in DOMAIN resp.d
    THEN Returned(PyStr(Format(resp.d.text)))
    ELSE Returned(PyNone)

\* ocr_image lines 120-122, speech_to_text lines 129-131: `"text" in resp` is
\* key membership on a dict, element membership on a list, and a TypeError
\* on a number, a bool or None
TextOf(resp, what) ==
    CASE resp.ty = "dict" ->
            IF "text" \in DOMAIN resp.d THEN Returned(PyStr(Format(resp.d.text)))
            ELSE MissingText(what)
      [] resp.ty = "str" ->
            IF \E i \in 1..Len(resp.s) : StartsWith(SubSeq(resp.s, i, Len(resp.s)), s_text)
            THEN Raised("TypeError")
            ELSE MissingText(what)
      [] resp.ty = "list" ->
            IF \E i \in DOMAIN resp.xs : resp.xs[i] = PyStr(s_text)
            THEN Raised("TypeError")
            ELSE MissingText(what)
      [] OTHER -> Raised("TypeError")

\* mutant: every payload is yielded, whatever its symbol
StreamStepUnfiltered(event, symbol) ==
    IF ~HasGet(event) THEN Raise("AttributeError")
    ELSE LET payload == Get(event, "message", EmptyDict)
         IN  IF ~HasGet(payload) THEN Raise("AttributeError")
             ELSE [do |-> "yield", v |-> payload]

\* stream_prices lines 75-77 for one event of the subscription
StreamStep(event, symbol) ==
    IF ~HasGet(event) THEN Raise("AttributeError")
    ELSE LET payload == Get(event, "message", EmptyDict)
         IN  IF ~HasGet(payload) THEN Raise("AttributeError")
             ELSE IF Get(payload, "symbol", PyNone) = symbol
             THEN [do |-> "yield", v |-> payload]
             ELSE [do |-> "skip"]

DocMessage(action) ==
    PyDict([action |-> PyStr(action), uri |-> PyStr(s_uri), media_type |-> PyStr(s_pdf)])

\* the facade calls: the bus call each one makes
FacadeCall(name, kind, channel, message, symbol) ==
    [name |-> name, kind |-> kind, channel |-> PyStr(channel), message |-> message,
     symbol |-> symbol]
FacadeCalls ==
    { FacadeCall("fetch", "request", s_document, DocMessage(s_fetch), PyNone),
      FacadeCall("ocr_image", "request", s_document, DocMessage(s_ocr), PyNone),
      FacadeCall("speech_to_text", "request", s_document, DocMessage(s_asr), PyNone),
      FacadeCall("stream_prices", "subscribe", s_market, PyNone, PyStr(s_MSFT)),
      FacadeCall("stream_prices", "subscribe", s_market, PyNone, PyStr(s_AAPL)) }

\* the facade coroutine starts and enters the bus call's `async with`
facade_call(o) ==
    /\ ops[o].pc = "idle"
    /\ \E call \in FacadeCalls :
          ops' = [ops EXCEPT ![o] =
                    [@ EXCEPT !.pc = "opened", !.kind = call.kind, !.channel = call.channel,
                              !.message = call.message, !.ws = FreshConn(o),
                              !.fa = [NoFacade EXCEPT !.name = call.name, !.pc = "awaiting",
                                                      !.symbol = call.symbol]]]
    /\ Establish(FreshConn(o))
    /\ UNCHANGED <<log, poolQueue>>

FacadeDone(o, out) ==
    ops' = [ops EXCEPT ![o].fa.pc = "done", ![o].fa.out = out]

\* the bus call raised, or the subscription ended: the facade ends likewise
facade_end(o) ==
    /\ ops[o].fa.pc = "awaiting"
    /\ ops[o].pc = "done"
    /\ ops[o].result.st # "returned" \/ ops[o].fa.name = "stream_prices"
    /\ FacadeDone(o, ops[o].result)
    /\ UNCHANGED <<conns, srv, log, poolQueue>>

\* fetch lines 102-113 once request has returned `resp`
fetch_resolve(o) ==
    /\ ops[o].fa.name = "fetch"
    /\ ops[o].fa.pc = "awaiting"
    /\ ops[o].pc = "done"
    /\ ops[o].result.st = "returned"
    /\ LET r == Resolve(ops[o].result.v)
       IN  CASE r.do = "return" -> FacadeDone(o, Returned(r.response))
             [] r.do = "get" -> ops' = [ops EXCEPT ![o].fa.pc = "get", ![o].fa.gets = @ + 1]
             [] r.do = "raise" ->
                   FacadeDone(o, IF r.exc = "ValueError" THEN MissingContent
                                 ELSE Raised(r.exc))
    /\ UNCHANGED <<conns, srv, log, poolQueue>>

\* fetch lines 110-112: the GET of the signed URL returns, or fails
signed_get(o) ==
    /\ ops[o].fa.pc = "get"
    /\ \E out \in {Returned(PyBytes(s_remote)), Raised("HTTPStatusError"), Raised("HTTPError")} :
          FacadeDone(o, out)
    /\ UNCHANGED <<conns, srv, log, poolQueue>>

\* ocr_image / speech_to_text once request has returned `resp`
text_resolve(o) ==
    /\ ops[o].fa.name \in {"ocr_image", "speech_to_text"}
    /\ ops[o].fa.pc = "awaiting"
    /\ ops[o].pc = "done"
    /\ ops[o].result.st = "returned"
    /\ FacadeDone(o, TextOf(ops[o].result.v,
                            IF ops[o].fa.name = "ocr_image" THEN <<"OCR">> ELSE <<"ASR">>))
    /\ UNCHANGED <<conns, srv, log, poolQueue>>

\* stream_prices lines 74-77: the subscription has yielded an event.  A
\* matching payload is yielded on; another event is skipped and the next one
\* asked for; an exception leaves stream_prices, and the subscription's
\* generator is dropped suspended at its yield (nothing closes it here)
stream_event(o) ==
    /\ ops[o].fa.name = "stream_prices"
    /\ ops[o].fa.pc = "awaiting"
    /\ ops[o].pc = "yielded"
    /\ LET r == StreamStep(ops[o].items[Len(ops[o].items)], ops[o].fa.symbol)
       IN  CASE r.do = "yield" ->
                   ops' = [ops EXCEPT ![o].fa.pc = "yielded",
                                      ![o].fa.yielded = Append(@, r.v)]
             [] r.do = "skip" -> ops' = [ops EXCEPT ![o].pc = "iter"]
             [] r.do = "raise" ->
                   ops' = [ops EXCEPT ![o].pc = "abandoned", ![o].fa.pc = "done",
                                      ![o].fa.out = Raised(r.exc)]
    /\ UNCHANGED <<conns, srv, log, poolQueue>>

\* the consumer of stream_prices asks for the next tick
stream_next(o) ==
    /\ ops[o].fa.name = "stream_prices"
    /\ ops[o].fa.pc = "yielded"
    /\ ops' = [ops EXCEPT ![o].fa.pc = "awaiting", ![o].pc = "iter"]
    /\ UNCHANGED <<conns, srv, log, poolQueue>>

\* the consumer closes stream_prices (aclose): GeneratorExit at line 77 leaves
\* the `async for` of line 74, which does not close the subscription's
\* generator: it is dropped suspended at its yield, inside its `async with`
stream_aclose(o) ==
    /\ ops[o].fa.name = "stream_prices"
    /\ ops[o].fa.pc = "yielded"
    /\ ops' = [ops EXCEPT ![o].fa.pc = "done", ![o].fa.out = Raised("GeneratorExit"),
                          ![o].pc = "abandoned"]
    /\ UNCHANGED <<conns, srv, log, poolQueue>>

\* the agent at the other end of a facade call (market-agent,
\* document-service-agent): it sends any of these frames, at any time or
\* never.  A tick carries the number of the frame as its price.
Tick(symbol, n) ==
    JsonDumps(PyDict([channel |-> PyStr(s_market),
                      message |-> PyDict([symbol |-> PyStr(symbol), price |-> PyNum(n)])]))

DocResponses ==
    { JsonDumps(PyDict(b64 @@ content @@ url)) :
        b64 \in Opt("content_base64", {PyStr(<<>>), PyStr(s_b64body)}),
        content \in Opt("content", {PyStr(s_row)}),
        url \in Opt("signed_url", {PyStr(s_signed)}) }

TextResponses ==
    { JsonDumps(PyDict([text |-> PyStr(s_row)])), JsonDumps(PyDict([text |-> PyNum(5)])),
      JsonDumps(PyNone) }

AgentFrames(n) ==
    {Tick(s_MSFT, n), Tick(s_AAPL, n), NotJson, Undecodable, JsonDumps(PyList(<<>>))}
        \cup DocResponses \cup TextResponses

\* the agent sends a frame; log[c] keeps the frames sent, in order
agent_send(c) ==
    /\ conns[c].state = "open"
    /\ srv[c].phase = "recv"
    /\ conns[c].nsent < MaxFrames
    /\ \E frame \in AgentFrames(conns[c].nsent + 1) :
          /\ conns' = [conns EXCEPT ![c].s2c = Append(@, frame), ![c].nsent = @ + 1]
          /\ log' = [log EXCEPT ![c] = Append(@, frame)]
    /\ UNCHANGED <<ops, srv, poolQueue>>

NextFacade ==
    \/ facade_call(1)
    \/ send(1)
    \/ request_recv(1)
    \/ request_timeout(1)
    \/ subscribe_recv(1)
    \/ recv_closed(1)
    \/ subscribe_finalize(1)
    \/ cancel(1)
    \/ facade_end(1)
    \/ fetch_resolve(1)
    \/ signed_get(1)
    \/ text_resolve(1)
    \/ stream_event(1)
    \/ stream_next(1)
    \/ stream_aclose(1)
    \/ agent_send(1)
    \/ server_close(1)
    \/ conn_lost(1)

SpecFacade == Init /\ [][NextFacade]_vars

\* --------------------------------------------------- the facades' guarantees
\* a fetch whose request has returned the mapping `resp`, and is over
FetchDone(o) ==
    /\ ops[o].fa.name = "fetch"
    /\ ops[o].fa.pc = "done"
    /\ ops[o].result.st = "returned"
    /\ ops[o].result.v.ty = "dict"

Has(resp, key) == key \in DOMAIN resp.d

\* C11: fetch resolves its response in the order content_base64, content,
\* signed_url: the result comes from the first of the three fields that is
\* present, the signed URL is fetched (once) only when the first two are both
\* absent, and fetch fails with the missing-content error exactly when none of
\* the three is present.
C11_FetchResolution ==
    \A o \in Ops : FetchDone(o) =>
        LET resp == ops[o].result.v
            out == ops[o].fa.out
            gets == ops[o].fa.gets
        IN  /\ Has(resp, "content_base64") =>
                  /\ out = Returned(B64Decode(resp.d.content_base64).response)
                  /\ gets = 0
            /\ (~Has(resp, "content_base64") /\ Has(resp, "content")) =>
                  /\ out.st = "returned"
                  /\ gets = 0
            /\ (~Has(resp, "content_base64") /\ ~Has(resp, "content")
                    /\ Has(resp, "signed_url")) =>
                  /\ gets = 1
                  /\ out \in {Returned(PyBytes(s_remote)), Raised("HTTPStatusError"),
                              Raised("HTTPError")}
            /\ (~Has(resp, "content_base64") /\ ~Has(resp, "content")
                    /\ ~Has(resp, "signed_url")) =>
                  /\ out = MissingContent
                  /\ gets = 0
            /\ out = MissingContent =>
                  ~(Has(resp, "content_base64") \/ Has(resp, "content")
                        \/ Has(resp, "signed_url"))

Streaming(o) == ops[o].fa.name = "stream_prices"

\* a tick: an envelope whose message is a mapping that has a symbol
IsTick(frame) ==
    /\ frame.fr = "json"
    /\ frame.v.ty = "dict"
    /\ "message" \in DOMAIN frame.v.d
    /\ frame.v.d.message.ty = "dict"
    /\ "symbol" \in DOMAIN frame.v.d.message.d

\* the number of frames of the subscription stream_prices has dealt with
Processed(o) ==
    IF ops[o].pc = "yielded" /\ ops[o].fa.pc = "awaiting"
    THEN Len(ops[o].items) - 1
    ELSE Len(ops[o].items)

Delivered(o) == SubSeq(log[ops[o].ws], 1, Processed(o))

MatchingTicks(o) ==
    LET Matches(frame) == frame.v.d.message.d.symbol = ops[o].fa.symbol
        ticks == SelectSeq(Delivered(o), Matches)
    IN  [i \in DOMAIN ticks |-> ticks[i].v.d.message]

\* C12: when the frames delivered on the market subscription are ticks,
\* stream_prices has yielded exactly the ticks among them whose symbol is
\* request.symbol, in arrival order, each once, and has not failed.
C12_StreamFiltersBySymbol ==
    \A o \in Ops :
        (Streaming(o) /\ \A i \in 1..Processed(o) : IsTick(log[ops[o].ws][i])) =>
            /\ ops[o].fa.yielded = MatchingTicks(o)
            /\ ops[o].fa.out.st = "raised" =>
                  ops[o].fa.out.exc \notin {"AttributeError", "TypeError"}

\* a tick for AAPL and then one for MSFT were delivered, and stream_prices
\* (symbol MSFT) has yielded the second only
C12_Witness ==
    /\ Streaming(1)
    /\ log[1] = <<Tick(s_AAPL, 1), Tick(s_MSFT, 2)>>
    /\ Processed(1) = 2
    /\ ops[1].fa.yielded = <<PyDict([symbol |-> PyStr(s_MSFT), price |-> PyNum(2)])>>

\* the sequence has been cancelled (CancelledError) or closed (aclose):
\* stream_prices when the call went through the facade, subscribe otherwise
SequenceCancelled(o) ==
    LET ended == {Raised("GeneratorExit"), Raised("CancelledError")}
    IN  /\ ops[o].kind = "subscribe"
        /\ IF Streaming(o)
           THEN ops[o].fa.pc = "done" /\ ops[o].fa.out \in ended
           ELSE ops[o].pc = "done" /\ ops[o].result \in ended

\* C13: once a subscription sequence (subscribe, or stream_prices around it)
\* has been cancelled or closed, its connection is closed: the closing is part
\* of the cancellation step.
C13_CancelClosesConnection ==
    \A o \in Ops : SequenceCancelled(o) => conns[ops[o].ws].state # "open"

\* a request that received a frame: it is over, and not by its timeout, a
\* closed connection or a cancellation
ReceivedResponse(o) ==
    /\ ops[o].kind = "request"
    /\ ops[o].pc = "done"
    /\ ~(/\ ops[o].result.st = "raised"
         /\ ops[o].result.exc \in {"TimeoutError", "ConnectionClosed", "CancelledError"})

\* C14: a request returns the decoded value of the one frame it received when
\* that frame decodes, and {"payload": raw} with the frame unchanged when it
\* does not; it never fails on the frame, and only the first frame sent on
\* the connection is consumed.
C14_RequestFallback ==
    \A o \in Ops : ReceivedResponse(o) =>
        /\ log[ops[o].ws] # <<>>
        /\ ops[o].items = <<>>
        /\ LET raw == log[ops[o].ws][1]
               loaded == JsonLoads(raw)
           IN  ops[o].result =
                  IF loaded.ok THEN Returned(loaded.v)
                  ELSE Returned(PyDict([payload |-> [ty |-> "str", raw |-> raw]]))

\* ------------------------------------------------------ the bus client, again
\* the frames the server's end has been sent on a connection, in order: those
\* the handler took and those still in flight
FramesSent(c) == [i \in 1..Len(log[c]) |-> log[c][i].payload] \o conns[c].c2s

\* C15: publish sends one envelope, which has the channel and the message and
\* neither the reply nor the subscribe flag, and returns None once the send
\* is done: it can return whether or not the server has answered, and reads no
\* frame.
C15_PublishFireAndForget ==
    \A o \in Ops : ops[o].kind = "publish" =>
        /\ FramesSent(ops[o].ws) =
              IF ops[o].sent = 1
              THEN <<JsonDumps(PyDict([channel |-> ops[o].channel,
                                       message |-> ops[o].message]))>>
              ELSE <<>>
        /\ ops[o].pc = "sent" => ENABLED publish_return(o)
        /\ ops[o].items = <<>>
        /\ ops[o].result \in {[st |-> "pending"], Returned(PyNone),
                              Raised("ConnectionClosed"), Raised("CancelledError")}
        /\ (ops[o].sent = 1 /\ ops[o].pc = "done"
                /\ ops[o].result # Raised("CancelledError")) => ops[o].result = Returned(PyNone)

\* the server had answered the envelope before publish returned; publish
\* returned None all the same and the answer was never read
C15_Witness ==
    /\ ops[1].kind = "publish"
    /\ ops[1].pc = "done"
    /\ ops[1].result = Returned(PyNone)
    /\ Len(log[1]) = 1
    /\ log[1][1].result.st = "sent"
    /\ conns[1].nsent = 1
    /\ ops[1].items = <<>>

\* ------------------------------------------------- the facades' guarantees
TextCall(o) == ops[o].fa.name \in {"ocr_image", "speech_to_text"}

HasText(resp) == resp.ty = "dict" /\ "text" \in DOMAIN resp.d

\* C16: ocr_image and speech_to_text make one request and no more; when its
\* response (a mapping) has a text field they return it (as a str), when it
\* has none they fail with the missing-text error of the call.
C16_TextOrMissingText ==
    \A o \in Ops : TextCall(o) =>
        /\ ops[o].kind = "request"
        /\ ops[o].sent <= 1
        /\ Len(conns[ops[o].ws].c2s) <= ops[o].sent
        /\ \A i \in DOMAIN conns[ops[o].ws].c2s :
              conns[ops[o].ws].c2s[i] =
                  JsonDumps(PyDict([channel |-> PyStr(s_document),
                                    message |-> DocMessage(IF ops[o].fa.name = "ocr_image"
                                                           THEN s_ocr ELSE s_asr),
                                    reply |-> PyBool(TRUE)]))
        /\ (ops[o].fa.pc = "done" /\ ops[o].result.st = "returned"
                /\ ops[o].result.v.ty = "dict") =>
              LET resp == ops[o].result.v
              IN  IF HasText(resp)
                  THEN /\ ops[o].fa.out = Returned(PyStr(Format(resp.d.text)))
                       /\ resp.d.text.ty = "str" => ops[o].fa.out = Returned(resp.d.text)
                  ELSE ops[o].fa.out =
                          [st |-> "raised", exc |-> "ValueError",
                           text |-> IF ops[o].fa.name = "ocr_image"
                                    THEN <<"MCP ", "OCR", " response missing text">>
                                    ELSE <<"MCP ", "ASR", " response missing text">>]

\* ocr_image made its request, the response had no text field, and the call
\* has failed with the missing-text error
C16_Witness ==
    /\ ops[1].fa.name = "ocr_image"
    /\ ops[1].fa.pc = "done"
    /\ ops[1].sent = 1
    /\ ops[1].result.st = "returned"
    /\ ~HasText(ops[1].result.v)
    /\ ops[1].fa.out.st = "raised"
    /\ ops[1].fa.out.exc = "ValueError"

\* ------------------------------------------------------------ the encoding
\* the calls whose envelope is valid: a channel, a message that is a mapping
\* or bytes, and the flag of the operation
s_raw == <<"raw bytes">>
TupleMessage ==
    PyDict([action |-> PyStr(s_history),
            params |-> PyDict([symbols |-> PyTuple(<<PyStr(s_AAPL), PyStr(s_MSFT)>>)])])
ValidMessages == {HistoryMessage, FetchMessage, BogusMessage, EmptyDict, TupleMessage,
                  PyBytes(s_raw)}
ValidCalls ==
    { Call(kind, channel, message) :
        kind \in {"publish", "subscribe", "request"},
        channel \in {s_market, s_document, s_news},
        message \in ValidMessages }

\* a call with any valid envelope has connected to the server
InitCodec ==
    /\ \E call \in ValidCalls :
          ops = [o \in Ops |->
                    IF o = 1 THEN [IdleOp EXCEPT !.pc = "opened", !.kind = call.kind,
                                                 !.channel = call.channel,
                                                 !.message = call.message, !.ws = 1]
                    ELSE IdleOp]
    /\ conns = [c \in ConnIds |-> IF c = 1 THEN [NoConn EXCEPT !.state = "open"] ELSE NoConn]
    /\ srv = [c \in ConnIds |-> IF c = 1 THEN [phase |-> "recv", call |-> NoCall]
                               ELSE NoHandler]
    /\ log = [c \in ConnIds |-> <<>>]
    /\ poolQueue = <<>>

NextCodec ==
    \/ send(1)
    \/ publish_return(1)
    \/ request_recv(1)
    \/ request_timeout(1)
    \/ subscribe_recv(1)
    \/ subscribe_aclose(1)
    \/ recv_closed(1)
    \/ Server(1)

SpecCodec == InitCodec /\ [][NextCodec]_vars

BusCall(o) == ops[o].kind \in {"publish", "subscribe", "request"}

\* C17: encoding a valid envelope does not fail and decoding the text gives
\* the envelope back; the envelope the server decodes and dispatches is the
\* one the client's publish, subscribe or request built.
C17_RoundTrip ==
    \A o \in Ops : BusCall(o) =>
        LET E == Envelope(ops[o])
        IN  /\ JsonSerializable(E)
            /\ JsonLoads(JsonDumps(E)) = [ok |-> TRUE, v |-> E]
            /\ ops[o].result # Raised("TypeError")
            /\ \A e \in Entries(ops[o].ws) : JsonLoads(e.payload) = [ok |-> TRUE, v |-> E]

\* ------------------------------------------------ the handler's guarantees
\* a payload that decodes to something that is no well-formed envelope: not
\* a mapping, or with a message that is no mapping, or a channel that is no str
Malformed(raw) ==
    /\ JsonLoads(raw).ok
    /\ LET v == JsonLoads(raw).v
       IN  \/ v.ty # "dict"
           \/ "message" \in DOMAIN v.d /\ v.d.message.ty # "dict"
           \/ "channel" \in DOMAIN v.d /\ v.d.channel.ty # "str"

\* C18: a payload that decodes but is no well-formed envelope is answered
\* with an error envelope, and the handler goes on serving the connection.
C18_MalformedEnvelopeAnswered ==
    \A c \in ConnIds : \A e \in Entries(c) :
        (Malformed(e.payload) /\ conns[c].state = "open") =>
            /\ e.result.st = "sent"
            /\ IsErrorEnvelope(e.result.body)
            /\ srv[c].phase # "crashed"

\* ------------------------------------------------------ the bus client, again
TimedOut(o) ==
    /\ ops[o].kind = "request"
    /\ ops[o].pc = "done"
    /\ IsRequestTimeout(ops[o].result, ops[o].channel)

\* every event a subscription has yielded was decoded from a frame the server
\* sent on the subscription's own connection
OwnEvents(o) ==
    \A i \in DOMAIN ops[o].items :
        \E e \in Entries(ops[o].ws) :
            /\ e.result.st = "sent"
            /\ Returned(ops[o].items[i]) = SubscribeItem(ops[o], JsonDumps(e.result.body))

\* C19: once a request has timed out, its connection is closed and holds no
\* frame, so a response the server produces late goes nowhere: the caller
\* keeps its timeout, and every other call receives only what the server sent
\* on that call's own connection.
C19_LateResponseDiscarded ==
    /\ [](\A o \in Ops : TimedOut(o) =>
            /\ conns[ops[o].ws].state = "closed"
            /\ conns[ops[o].ws].s2c = <<>>
            /\ \A o2 \in Ops \ {o} :
                  /\ ops[o2].ws # ops[o].ws
                  /\ (ops[o2].kind = "request" /\ ops[o2].pc = "done"
                          /\ ops[o2].result.st = "returned") => OwnResponse(o2)
                  /\ ops[o2].kind = "subscribe" => OwnEvents(o2))
    /\ [][\A o \in Ops : TimedOut(o) => ops'[o] = ops[o]]_vars

\* request 1 timed out while its provider call ran; the server then built the
\* response and failed to send it; request 2 has returned its own response
C19_Witness ==
    /\ TimedOut(1)
    /\ Len(log[1]) = 1
    /\ log[1][1].response # NoResponse
    /\ log[1][1].result = Raised("ConnectionClosed")
    /\ ops[2].kind = "request"
    /\ ops[2].pc = "done"
    /\ ops[2].result.st = "returned"

\* ------------------------------------------------- the facades' guarantees
\* the events subscribe has yielded are, frame by frame, the decoded frame or
\* {"channel": channel, "message": raw} for a frame that does not decode
OpaqueDelivered(o) ==
    \A i \in DOMAIN ops[o].items :
        LET raw == log[ops[o].ws][i]
        IN  ops[o].items[i] =
               IF JsonLoads(raw).ok THEN JsonLoads(raw).v
               ELSE PyDict([channel |-> ops[o].channel,
                            message |-> [ty |-> "str", raw |-> raw]])

\* C20: a text frame of a subscription that is no JSON document is delivered
\* by subscribe as {"channel": channel, "message": raw} and the later frames
\* still are; stream_prices skips such an event without failing, so the ticks
\* after it are still yielded.
C20_BadFrameSkipped ==
    \A o \in Ops : ops[o].kind = "subscribe" =>
        /\ OpaqueDelivered(o)
        /\ \A i \in DOMAIN ops[o].items :
              log[ops[o].ws][i] = NotJson =>
                  /\ ops[o].result.st = "raised" =>
                        ops[o].result.exc \in {"ConnectionClosed", "CancelledError",
                                               "GeneratorExit", "UnicodeDecodeError"}
                  /\ Streaming(o) =>
                        ~(ops[o].fa.out.st = "raised"
                              /\ ops[o].fa.out.exc \in {"AttributeError", "TypeError"})


\* -------------------------------------------------- exhaustion of the pool
\* the provider call of connection c was submitted (line 35) while every
\* worker thread of the executor runs another provider call
Exhausted(c) ==
    /\ srv[c].phase = "queued"
    /\ Cardinality(Running) = PoolSize

\* C21: when every worker of the pool is busy, a further history call does
\* not wait for a worker for ever: its wait ends (the call fails, or is
\* given a worker), even if the busy workers never finish, so that the
\* payload that triggered it can be answered.
C21_PoolExhaustionFails ==
    \A c \in ConnIds : Exhausted(c) ~> srv[c].phase # "queued"


\* ------------------------------------------- one payload at a time (handler)
\* the handler of connection c awaits a connector (dispatch lines 69, 78)
AwaitsConnector(c) == srv[c].phase \in {"queued", "running", "fetch"}

\* a step in which the handler of connection c takes a payload
Takes(c) == Len(log'[c]) = Len(log[c]) + 1

\* a step in which a response is sent on connection c
Sends(c) == conns'[c].nsent # conns[c].nsent

\* C22: on one server connection the payloads are processed one at a time in
\* arrival order: the handler takes the oldest payload that arrived, and only
\* when the response to every payload before it has been sent; the n-th
\* response sent on the connection is the response to the n-th payload and
\* leaves after the responses sent before it; while a connector call is
\* pending the handler takes no later payload of that connection.
C22_OnePayloadAtATime ==
    /\ [](\A c \in ConnIds : \A i \in 1..(Len(log[c]) - 1) :
            log[c][i].result.st = "sent")
    /\ [][\A c \in ConnIds : Takes(c) =>
            /\ conns[c].c2s # <<>>
            /\ log'[c][Len(log'[c])].payload = Head(conns[c].c2s)
            /\ conns'[c].c2s = Tail(conns[c].c2s)
            /\ \A i \in 1..Len(log[c]) : log[c][i].result.st = "sent"]_vars
    /\ [][\A c \in ConnIds : Sends(c) =>
            LET n == Len(log'[c])
            IN  /\ conns'[c].nsent = n
                /\ log'[c][n].result.st = "sent"
                /\ conns'[c].s2c =
                      Append(conns[c].s2c, JsonDumps(log'[c][n].result.body))]_vars
    /\ [](\A c \in ConnIds : AwaitsConnector(c) => ~ENABLED handler(c))

\* two payloads arrived on connection 1, the first needed a connector call;
\* both were answered and the two responses wait on the connection in the
\* order of the payloads
C22_Witness ==
    /\ Len(log[1]) >= 2
    /\ log[1][1].calls # <<>>
    /\ log[1][1].result.st = "sent"
    /\ log[1][2].result.st = "sent"
    /\ log[1][1].payload # log[1][2].payload
    /\ log[1][1].result.body # log[1][2].result.body
    /\ conns[1].nsent = 2
    /\ conns[1].s2c = <<JsonDumps(log[1][1].result.body),
                        JsonDumps(log[1][2].result.body)>>


\* ------------------------------------- the facades over the reference server
\* facade calls against MCPServer itself.  The steps left out are never
\* enabled here: the server makes no provider call (no facade call modelled
\* here sends action "history"), it sends no signed URL, and stream_prices
\* never reaches its yield (C23 states that no such state is reached)
NextReference ==
    \/ facade_call(1)
    \/ send(1)
    \/ request_recv(1)
    \/ request_timeout(1)
    \/ subscribe_recv(1)
    \/ recv_closed(1)
    \/ cancel(1)
    \/ facade_end(1)
    \/ fetch_resolve(1)
    \/ text_resolve(1)
    \/ stream_event(1)
    \/ handler(1)
    \/ fetch_return(1)
    \/ fetch_raise(1)
    \/ handler_end(1)
    \/ conn_lost(1)

SpecReference == Init /\ [][NextReference]_vars


StreamCall(o) == ops[o].fa.name = "stream_prices"

\* the envelope subscribe sends and the answer the reference server has for it
SubscribeEnvelope == PyDict([channel |-> PyStr(s_market), subscribe |-> PyBool(TRUE)])
NoActionError ==
    PyDict([error |-> PyStr(<<"Unsupported market action: ", "N", "o", "n", "e">>)])

\* C23: against the reference server the subscribe envelope of stream_prices
\* (subscribe flag, no message) is dispatched as a request without action:
\* no connector is called, the one response is the routing error for the
\* action None, nothing else is ever sent on the connection, and
\* stream_prices never yields an element, whatever the symbol asked for.
C23_ReferenceServerNeverTicks ==
    \A o \in Ops : StreamCall(o) =>
        LET c == ops[o].ws
        IN  /\ ops[o].fa.symbol \in {PyStr(s_MSFT), PyStr(s_AAPL)}
            /\ \A i \in DOMAIN conns[c].c2s : conns[c].c2s[i] = JsonDumps(SubscribeEnvelope)
            /\ Len(log[c]) <= 1
            /\ \A e \in Entries(c) :
                  /\ e.payload = JsonDumps(SubscribeEnvelope)
                  /\ e.calls = <<>>
                  /\ e.response = NoActionError
                  /\ e.result.st = "sent" => e.result.body = NoActionError
            /\ conns[c].nsent <= 1
            /\ \A i \in DOMAIN conns[c].s2c : conns[c].s2c[i] = JsonDumps(NoActionError)
            /\ \A i \in DOMAIN ops[o].items : ops[o].items[i] = NoActionError
            /\ Len(ops[o].items) <= 1
            /\ ops[o].fa.yielded = <<>>
            /\ ops[o].fa.pc # "yielded"
            /\ ops[o].fa.out.st # "returned" \/ ops[o].fa.out = Returned(PyNone)

\* stream_prices for AAPL has been handed the server's one answer, the
\* routing error, has skipped it, and waits for a next event on a connection
\* on which the server awaits the next payload
C23_Witness ==
    /\ StreamCall(1)
    /\ ops[1].fa.symbol = PyStr(s_AAPL)
    /\ ops[1].items = <<NoActionError>>
    /\ ops[1].pc = "iter"
    /\ ops[1].fa.pc = "awaiting"
    /\ ops[1].fa.yielded = <<>>
    /\ log[1][1].result = Sent(NoActionError)
    /\ conns[1].s2c = <<>>
    /\ conns[1].state = "open"
    /\ srv[1].phase = "recv"


\* the error the reference server has for a document action it does not know
UnsupportedDocumentError(action) ==
    PyDict([error |-> PyStr(<<"Unsupported document action: ">> \o action)])

ActionOfCall(o) == IF ops[o].fa.name = "ocr_image" THEN s_ocr ELSE s_asr

\* C24: against the reference server ocr_image sends action "ocr" and
\* speech_to_text sends action "asr" on the document channel; the server
\* calls no connector for it and answers with the error envelope for an
\* unsupported document action, which has no text field; the call never
\* returns a text, and once it has received the server's answer it ends in
\* the missing-text error of the call.
C24_ReferenceServerNoText ==
    \A o \in Ops : TextCall(o) =>
        LET c == ops[o].ws
            answer == UnsupportedDocumentError(ActionOfCall(o))
        IN  /\ ops[o].channel = PyStr(s_document)
            /\ Get(ops[o].message, "action", PyNone) = PyStr(ActionOfCall(o))
            /\ \A e \in Entries(c) :
                  /\ e.payload = JsonDumps(Envelope(ops[o]))
                  /\ e.calls = <<>>
                  /\ e.response = answer
            /\ ~HasText(answer)
            /\ ops[o].result.st = "returned" => ops[o].result.v = answer
            /\ ops[o].fa.out.st # "returned"
            /\ (ops[o].fa.pc = "done" /\ ops[o].result.st = "returned") =>
                  ops[o].fa.out =
                      [st |-> "raised", exc |-> "ValueError",
                       text |-> IF ops[o].fa.name = "ocr_image"
                                THEN <<"MCP ", "OCR", " response missing text">>
                                ELSE <<"MCP ", "ASR", " response missing text">>]

\* speech_to_text has received the server's answer to action "asr" and has
\* failed with the missing-text error
C24_Witness ==
    /\ ops[1].fa.name = "speech_to_text"
    /\ ops[1].fa.pc = "done"
    /\ Len(log[1]) = 1
    /\ log[1][1].result = Sent(UnsupportedDocumentError(s_asr))
    /\ ops[1].result = Returned(UnsupportedDocumentError(s_asr))
    /\ ops[1].fa.out = [st |-> "raised", exc |-> "ValueError",
                        text |-> <<"MCP ", "ASR", " response missing text">>]

====
